---- MODULE Spec2Model ----
(***************************************************************************)
(* Model of platform/local/cluster.go: the LocalCluster orchestrator.      *)
(* One caller drives one LocalCluster through NewLocalCluster, the Ready   *)
(* operations (NewCommand, EtcdEndpoint, NewTap) and Destroy.  Every call  *)
(* into a collaborator (NsCreate, NewSSHAgent, NsEnter, NewDnsmasq,        *)
(* NewSimpleEtcd, netlink, the Destroy/Close methods) is one step whose    *)
(* outcome (success or error) is chosen nondeterministically.              *)
(***************************************************************************)
EXTENDS Integers, Sequences, FiniteSets, TLC

\* ---------------------------------------------------------------- bounds
MaxSegs == 2      \* longest Dnsmasq.Segments list
MaxLeases == 2    \* longest DHCPv4 list of one segment
MaxTaps == 2      \* NewTap calls that reach AddLinkTap

\* ---------------------------------------------------------------- data
BridgeNames == {"br0", "br1"}
IPs == {<<10, 0, 2, 15>>, <<192, 168, 0, 1>>}
Ports == {2379, 4001}
Sockets == {"/tmp/agent.sock"}
CallerNs == {"host", "outer"}
EnvBases == {<<>>, <<"FOO=bar">>, <<"SSH_AUTH_SOCK=/old", "FOO=bar">>}
TapArgs == {"br0", "br1", "tap0"}

\* sequences over S of length 0..n
RECURSIVE SeqsUpTo(_, _)
SeqsUpTo(S, n) ==
    IF n = 0 THEN {<<>>}
    ELSE LET shorter == SeqsUpTo(S, n - 1)
         IN  shorter \cup {Append(s, x) : s \in {t \in shorter : Len(t) = n - 1}, x \in S}

LeaseLists == SeqsUpTo(IPs, MaxLeases)
Segment == [BridgeName : BridgeNames, DHCPv4 : LeaseLists]
SegmentLists == SeqsUpTo(Segment, MaxSegs)

\* segment lists NewDnsmasq sets up in the lifecycle specification
ClusterSegmentLists ==
    { <<>>,
      <<[BridgeName |-> "br0", DHCPv4 |-> << <<10, 0, 2, 15>> >>]>>,
      <<[BridgeName |-> "br0", DHCPv4 |-> <<>>]>>,
      <<[BridgeName |-> "br1", DHCPv4 |-> << <<192, 168, 0, 1>> >>]>>,
      <<[BridgeName |-> "br1", DHCPv4 |-> << <<192, 168, 0, 1>> >>],
        [BridgeName |-> "br0", DHCPv4 |-> << <<10, 0, 2, 15>>, <<192, 168, 0, 1>> >>]>> }

Range(s) == {s[i] : i \in 1..Len(s)}

VARIABLES
    pc,         \* position of the caller: "idle" between calls, else a line of the running call
    op,         \* the call that is running or ran last
    life,       \* lifecycle of the cluster as the caller sees it
    nshandle,   \* lc.nshandle: "none", "open", "closed"
    SSHAgent,   \* lc.SSHAgent: "nil", "live", "closed"
    Dnsmasq,    \* lc.Dnsmasq: "nil", "live", "destroyed"
    SimpleEtcd, \* lc.SimpleEtcd: "nil", "live", "destroyed"
    Socket,     \* lc.SSHAgent.Socket
    Segments,   \* lc.Dnsmasq.Segments
    Port,       \* lc.SimpleEtcd.Port
    curNs,      \* namespace the calling thread is associated with
    origns,     \* association saved by NsEnter
    scope,      \* TRUE while a scoped region entered with NsEnter is open
    deferred,   \* TRUE once `defer nsExit()` is registered in the running call
    exits,      \* number of times nsExit ran in the running/last call
    nsBefore,   \* curNs at the moment the running/last call started
    tapsBefore, \* taps at the moment the running/last call started
    err,        \* the local err of the running call (pending return error)
    failed,     \* collaborator calls that returned an error in the running/last call
    trace,      \* collaborator calls made by the running/last call, in order
    ret,        \* what the last finished call returned
    taps,       \* TAP links in the cluster namespace: sequence of [up, master]
    arg,        \* argument of the running/last call
    br          \* NewTap's local br: kind of the link LinkByName found

vars == <<pc, op, life, nshandle, SSHAgent, Dnsmasq, SimpleEtcd, Socket, Segments, Port,
          curNs, origns, scope, deferred, exits, nsBefore, tapsBefore, err, failed, trace, ret, taps, arg, br>>

resources == <<nshandle, SSHAgent, Dnsmasq, SimpleEtcd>>
facts == <<Socket, Segments, Port>>
thread == <<curNs, origns, scope, deferred, exits>>

NoRet == [kind |-> "none"]

Init ==
    /\ pc = "idle"
    /\ op = "none"
    /\ life = "Uninitialized"
    /\ nshandle = "none"
    /\ SSHAgent = "nil"
    /\ Dnsmasq = "nil"
    /\ SimpleEtcd = "nil"
    /\ Socket = ""
    /\ Segments = <<>>
    /\ Port = 0
    /\ curNs \in CallerNs
    /\ origns = "none"
    /\ scope = FALSE
    /\ deferred = FALSE
    /\ exits = 0
    /\ nsBefore = curNs
    /\ tapsBefore = <<>>
    /\ err = "nil"
    /\ failed = {}
    /\ trace = <<>>
    /\ ret = NoRet
    /\ taps = <<>>
    /\ arg = "none"
    /\ br = "none"

\* ------------------------------------------------- collaborators (scope)
\* NsEnter binds the calling thread to the cluster namespace and remembers
\* the previous association; the release function restores it.
EnteredNs == "cluster"
RestoredNs == origns

\* nsExit(): the release function returned by NsEnter
NsExitRun ==
    /\ curNs' = RestoredNs
    /\ scope' = FALSE
    /\ exits' = exits + 1
    /\ UNCHANGED <<origns, deferred>>

\* deferred calls of the running frame, run when it returns or panics
RunDeferred ==
    IF deferred
    THEN /\ NsExitRun
         /\ trace' = Append(trace, "nsExit")
    ELSE /\ UNCHANGED thread
         /\ UNCHANGED trace

\* ---------------------------------------------- collaborators (teardown)
\* Destroy()/Close() of a service or of the handle terminates it and releases
\* its resources; it may in addition report an error.
AfterDestroy == "destroyed"
AfterClose == "closed"

\* ------------------------------------------------------- NewLocalCluster
\* lc.nshandle, err = NsCreate(); on error return nil, err
NsCreateStep ==
    /\ pc = "idle"
    /\ life = "Uninitialized"
    /\ op' = "NewLocalCluster"
    /\ life' = "Initializing"
    /\ nsBefore' = curNs
    /\ tapsBefore' = taps
    /\ exits' = 0
    /\ deferred' = FALSE
    /\ ret' = NoRet
    /\ arg' = "none"
    /\ br' = "none"
    /\ trace' = <<"NsCreate">>
    /\ \E ok \in BOOLEAN :
         IF ok
         THEN /\ nshandle' = "open"
              /\ err' = "nil"
              /\ failed' = {}
              /\ pc' = "nlc_agent"
         ELSE /\ nshandle' = "none"
              /\ err' = "NsCreateErr"
              /\ failed' = {"NsCreate"}
              /\ pc' = "nlc_return"
    /\ UNCHANGED <<SSHAgent, Dnsmasq, SimpleEtcd, facts, curNs, origns, scope, taps>>

\* variant: the handle is not closed when NewSSHAgent fails
NewSSHAgentStepNoClose ==
    /\ pc = "nlc_agent"
    /\ trace' = Append(trace, "NewSSHAgent")
    /\ \E ok \in BOOLEAN, s \in Sockets :
         IF ok
         THEN /\ SSHAgent' = "live"
              /\ Socket' = s
              /\ pc' = "nlc_enter"
              /\ err' = "nil"
              /\ UNCHANGED failed
         ELSE /\ err' = "SSHAgentErr"
              /\ failed' = failed \cup {"NewSSHAgent"}
              /\ pc' = "nlc_return"
              /\ UNCHANGED <<SSHAgent, Socket>>
    /\ UNCHANGED <<op, life, nshandle, Dnsmasq, SimpleEtcd, Segments, Port, thread, nsBefore, tapsBefore, ret, taps, arg, br>>

\* lc.SSHAgent, err = network.NewSSHAgent(dialer); on error close the handle
NewSSHAgentStep ==
    /\ pc = "nlc_agent"
    /\ \E ok \in BOOLEAN, s \in Sockets :
         IF ok
         THEN /\ SSHAgent' = "live"
              /\ Socket' = s
              /\ trace' = Append(trace, "NewSSHAgent")
              /\ pc' = "nlc_enter"
              /\ err' = "nil"
              /\ UNCHANGED <<nshandle, failed>>
         ELSE /\ nshandle' = AfterClose
              /\ err' = "SSHAgentErr"
              /\ failed' = failed \cup {"NewSSHAgent"}
              /\ trace' = trace \o <<"NewSSHAgent", "nshandle.Close">>
              /\ pc' = "nlc_return"
              /\ UNCHANGED <<SSHAgent, Socket>>
    /\ UNCHANGED <<op, life, Dnsmasq, SimpleEtcd, Segments, Port, thread, nsBefore, tapsBefore, ret, taps, arg, br>>

\* variant: the error of NsEnter is not checked
NsEnterStepIgnoresError ==
    /\ pc = "nlc_enter"
    /\ trace' = Append(trace, "NsEnter")
    /\ \E ok \in BOOLEAN :
         IF ok
         THEN /\ origns' = curNs
              /\ curNs' = EnteredNs
              /\ scope' = TRUE
              /\ deferred' = TRUE
              /\ err' = "nil"
              /\ UNCHANGED failed
         ELSE /\ err' = "NsEnterErr"
              /\ failed' = failed \cup {"NsEnter"}
              /\ UNCHANGED <<origns, curNs, scope, deferred>>
    /\ pc' = "nlc_dnsmasq"
    /\ UNCHANGED <<op, life, resources, facts, exits, nsBefore, tapsBefore, ret, taps, arg, br>>

\* nsExit, err := NsEnter(lc.nshandle); on error return nil, err; defer nsExit()
NsEnterStep ==
    /\ pc = "nlc_enter"
    /\ trace' = Append(trace, "NsEnter")
    /\ \E ok \in BOOLEAN :
         IF ok
         THEN /\ origns' = curNs
              /\ curNs' = EnteredNs
              /\ scope' = TRUE
              /\ deferred' = TRUE
              /\ pc' = "nlc_dnsmasq"
              /\ err' = "nil"
              /\ UNCHANGED failed
         ELSE /\ err' = "NsEnterErr"
              /\ failed' = failed \cup {"NsEnter"}
              /\ pc' = "nlc_return"
              /\ UNCHANGED <<origns, curNs, scope, deferred>>
    /\ UNCHANGED <<op, life, resources, facts, exits, nsBefore, tapsBefore, ret, taps, arg, br>>

\* variant: the error of NewDnsmasq is not checked
NewDnsmasqStepNoReturn ==
    /\ pc = "nlc_dnsmasq"
    /\ \E ok \in BOOLEAN, segs \in ClusterSegmentLists :
         IF ok
         THEN /\ Dnsmasq' = "live"
              /\ Segments' = segs
              /\ err' = "nil"
              /\ UNCHANGED failed
         ELSE /\ err' = "DnsmasqErr"
              /\ failed' = failed \cup {"NewDnsmasq"}
              /\ UNCHANGED <<Dnsmasq, Segments>>
    /\ trace' = Append(trace, "NewDnsmasq")
    /\ pc' = "nlc_etcd"
    /\ UNCHANGED <<op, life, nshandle, SSHAgent, SimpleEtcd, Socket, Port, thread, nsBefore, tapsBefore, ret, taps, arg, br>>

\* lc.Dnsmasq, err = NewDnsmasq(); on error close the handle
NewDnsmasqStep ==
    /\ pc = "nlc_dnsmasq"
    /\ \E ok \in BOOLEAN, segs \in ClusterSegmentLists :
         IF ok
         THEN /\ Dnsmasq' = "live"
              /\ Segments' = segs
              /\ trace' = Append(trace, "NewDnsmasq")
              /\ pc' = "nlc_etcd"
              /\ err' = "nil"
              /\ UNCHANGED <<nshandle, failed>>
         ELSE /\ nshandle' = AfterClose
              /\ err' = "DnsmasqErr"
              /\ failed' = failed \cup {"NewDnsmasq"}
              /\ trace' = trace \o <<"NewDnsmasq", "nshandle.Close">>
              /\ pc' = "nlc_return"
              /\ UNCHANGED <<Dnsmasq, Segments>>
    /\ UNCHANGED <<op, life, SSHAgent, SimpleEtcd, Socket, Port, thread, nsBefore, tapsBefore, ret, taps, arg, br>>

\* lc.SimpleEtcd, err = NewSimpleEtcd(); on error destroy dnsmasq, close the handle
NewSimpleEtcdStep ==
    /\ pc = "nlc_etcd"
    /\ \E ok \in BOOLEAN, p \in Ports :
         IF ok
         THEN /\ SimpleEtcd' = "live"
              /\ Port' = p
              /\ trace' = Append(trace, "NewSimpleEtcd")
              /\ pc' = "nlc_return"
              /\ err' = "nil"
              /\ UNCHANGED <<nshandle, Dnsmasq, failed>>
         ELSE /\ Dnsmasq' = AfterDestroy
              /\ nshandle' = AfterClose
              /\ err' = "EtcdErr"
              /\ failed' = failed \cup {"NewSimpleEtcd"}
              /\ trace' = trace \o <<"NewSimpleEtcd", "Dnsmasq.Destroy", "nshandle.Close">>
              /\ pc' = "nlc_return"
              /\ UNCHANGED <<SimpleEtcd, Port>>
    /\ UNCHANGED <<op, life, SSHAgent, Socket, Segments, thread, nsBefore, tapsBefore, ret, taps, arg, br>>

\* return lc, nil / return nil, err: the deferred nsExit runs, the caller gets the result
NewLocalClusterReturn ==
    /\ pc = "nlc_return"
    /\ RunDeferred
    /\ ret' = [kind |-> "cluster", lc |-> (err = "nil"), err |-> err]
    /\ life' = IF err = "nil" THEN "Ready" ELSE "Failed"
    /\ pc' = "idle"
    /\ UNCHANGED <<op, resources, facts, nsBefore, tapsBefore, err, failed, taps, arg, br>>

\* ---------------------------------------------------------------- Destroy
\* variant: the last error wins
lastErr(cur, e) == IF e # "nil" THEN e ELSE cur

\* firstErr := func(e error) { if e != nil && err == nil { err = e } }
firstErr(cur, e) == IF e # "nil" /\ cur = "nil" THEN e ELSE cur

\* the error a teardown call returns: nil, or the error of that call
TeardownErr(call, fail) == IF fail THEN call \o " failed" ELSE "nil"

\* variant: Destroy returns at the first failing step
DestroyEtcdStepReturnsEarly ==
    /\ pc = "idle"
    /\ life = "Ready"
    /\ op' = "Destroy"
    /\ life' = "Destroying"
    /\ nsBefore' = curNs
    /\ tapsBefore' = taps
    /\ exits' = 0
    /\ deferred' = FALSE
    /\ ret' = NoRet
    /\ arg' = "none"
    /\ br' = "none"
    /\ trace' = <<"SimpleEtcd.Destroy">>
    /\ SimpleEtcd' = AfterDestroy
    /\ \E fail \in BOOLEAN :
         /\ err' = firstErr("nil", TeardownErr("SimpleEtcd.Destroy", fail))
         /\ failed' = IF fail THEN {"SimpleEtcd.Destroy"} ELSE {}
         /\ pc' = IF fail THEN "d_return" ELSE "d_dnsmasq"
    /\ UNCHANGED <<nshandle, SSHAgent, Dnsmasq, facts, curNs, origns, scope, taps>>

\* firstErr(lc.SimpleEtcd.Destroy())
DestroyEtcdStep ==
    /\ pc = "idle"
    /\ life = "Ready"
    /\ op' = "Destroy"
    /\ life' = "Destroying"
    /\ nsBefore' = curNs
    /\ tapsBefore' = taps
    /\ exits' = 0
    /\ deferred' = FALSE
    /\ ret' = NoRet
    /\ arg' = "none"
    /\ br' = "none"
    /\ trace' = <<"SimpleEtcd.Destroy">>
    /\ SimpleEtcd' = AfterDestroy
    /\ \E fail \in BOOLEAN :
         /\ err' = firstErr("nil", TeardownErr("SimpleEtcd.Destroy", fail))
         /\ failed' = IF fail THEN {"SimpleEtcd.Destroy"} ELSE {}
    /\ pc' = "d_dnsmasq"
    /\ UNCHANGED <<nshandle, SSHAgent, Dnsmasq, facts, curNs, origns, scope, taps>>

\* firstErr(lc.Dnsmasq.Destroy())
DestroyDnsmasqStep ==
    /\ pc = "d_dnsmasq"
    /\ trace' = Append(trace, "Dnsmasq.Destroy")
    /\ Dnsmasq' = AfterDestroy
    /\ \E fail \in BOOLEAN :
         /\ err' = firstErr(err, TeardownErr("Dnsmasq.Destroy", fail))
         /\ failed' = IF fail THEN failed \cup {"Dnsmasq.Destroy"} ELSE failed
    /\ pc' = "d_agent"
    /\ UNCHANGED <<op, life, nshandle, SSHAgent, SimpleEtcd, facts, thread, nsBefore, tapsBefore, ret, taps, arg, br>>

\* firstErr(lc.SSHAgent.Close())
DestroyAgentStep ==
    /\ pc = "d_agent"
    /\ trace' = Append(trace, "SSHAgent.Close")
    /\ SSHAgent' = AfterClose
    /\ \E fail \in BOOLEAN :
         /\ err' = firstErr(err, TeardownErr("SSHAgent.Close", fail))
         /\ failed' = IF fail THEN failed \cup {"SSHAgent.Close"} ELSE failed
    /\ pc' = "d_ns"
    /\ UNCHANGED <<op, life, nshandle, Dnsmasq, SimpleEtcd, facts, thread, nsBefore, tapsBefore, ret, taps, arg, br>>

\* variant: the handle is closed only when nothing failed before
DestroyNsStepSkipsOnError ==
    /\ pc = "d_ns"
    /\ IF err = "nil"
       THEN /\ trace' = Append(trace, "nshandle.Close")
            /\ nshandle' = AfterClose
            /\ \E fail \in BOOLEAN :
                 /\ err' = firstErr(err, TeardownErr("nshandle.Close", fail))
                 /\ failed' = IF fail THEN failed \cup {"nshandle.Close"} ELSE failed
       ELSE UNCHANGED <<trace, nshandle, err, failed>>
    /\ pc' = "d_return"
    /\ UNCHANGED <<op, life, SSHAgent, Dnsmasq, SimpleEtcd, facts, thread, nsBefore, tapsBefore, ret, taps, arg, br>>

\* firstErr(lc.nshandle.Close())
DestroyNsStep ==
    /\ pc = "d_ns"
    /\ trace' = Append(trace, "nshandle.Close")
    /\ nshandle' = AfterClose
    /\ \E fail \in BOOLEAN :
         /\ err' = firstErr(err, TeardownErr("nshandle.Close", fail))
         /\ failed' = IF fail THEN failed \cup {"nshandle.Close"} ELSE failed
    /\ pc' = "d_return"
    /\ UNCHANGED <<op, life, SSHAgent, Dnsmasq, SimpleEtcd, facts, thread, nsBefore, tapsBefore, ret, taps, arg, br>>

\* return err
DestroyReturn ==
    /\ pc = "d_return"
    /\ ret' = [kind |-> "error", err |-> err]
    /\ life' = "Destroyed"
    /\ pc' = "idle"
    /\ UNCHANGED <<op, resources, facts, thread, nsBefore, tapsBefore, err, failed, trace, taps, arg, br>>

\* ----------------------------------------------------------- EtcdEndpoint
\* net.IP.String() of an IPv4 address: dotted decimal
IPString(ip) == ToString(ip[1]) \o "." \o ToString(ip[2]) \o "." \o ToString(ip[3]) \o "." \o ToString(ip[4])

\* variant: the format string lacks the separator between address and port
EndpointStringNoColon(ip, port) == "http://" \o IPString(ip) \o ToString(port)

\* fmt.Sprintf("http://%s:%d", ip, port)
EndpointString(ip, port) == "http://" \o IPString(ip) \o ":" \o ToString(port)

\* variant: a br0 segment without addresses is skipped
RECURSIVE ScanSegmentsSkipsEmpty(_, _, _)
ScanSegmentsSkipsEmpty(segs, port, i) ==
    IF i > Len(segs)
    THEN [kind |-> "panic", msg |-> "Not a valid bridge!"]
    ELSE IF segs[i].BridgeName = "br0" /\ Len(segs[i].DHCPv4) > 0
         THEN [kind |-> "value", val |-> EndpointString(segs[i].DHCPv4[1], port)]
         ELSE ScanSegmentsSkipsEmpty(segs, port, i + 1)

\* variant: the comparison with the bridge name is inverted
RECURSIVE ScanSegmentsInverted(_, _, _)
ScanSegmentsInverted(segs, port, i) ==
    IF i > Len(segs)
    THEN [kind |-> "panic", msg |-> "Not a valid bridge!"]
    ELSE IF segs[i].BridgeName # "br0"
         THEN IF Len(segs[i].DHCPv4) = 0
              THEN [kind |-> "panic", msg |-> "index out of range"]
              ELSE [kind |-> "value", val |-> EndpointString(segs[i].DHCPv4[1], port)]
         ELSE ScanSegmentsInverted(segs, port, i + 1)

\* the loop over lc.Dnsmasq.Segments, from index i on
RECURSIVE ScanSegments(_, _, _)
ScanSegments(segs, port, i) ==
    IF i > Len(segs)
    THEN [kind |-> "panic", msg |-> "Not a valid bridge!"]
    ELSE IF segs[i].BridgeName = "br0"
         THEN IF Len(segs[i].DHCPv4) = 0
              THEN [kind |-> "panic", msg |-> "index out of range"]
              ELSE [kind |-> "value", val |-> EndpointString(segs[i].DHCPv4[1], port)]
         ELSE ScanSegments(segs, port, i + 1)

EtcdEndpoint(segs, port) == ScanSegments(segs, port, 1)

\* a caller holding the cluster calls lc.EtcdEndpoint(), before or after Destroy
EtcdEndpointCall ==
    /\ pc = "idle"
    /\ life \in {"Ready", "Destroyed"}
    /\ op' = "EtcdEndpoint"
    /\ ret' = EtcdEndpoint(Segments, Port)
    /\ pc' = IF ret'.kind = "panic" THEN "crashed" ELSE "idle"
    /\ nsBefore' = curNs
    /\ tapsBefore' = taps
    /\ exits' = 0
    /\ deferred' = FALSE
    /\ err' = "nil"
    /\ failed' = {}
    /\ trace' = <<>>
    /\ arg' = "none"
    /\ br' = "none"
    /\ UNCHANGED <<life, resources, facts, curNs, origns, scope, taps>>

\* ------------------------------------------------------------- NewCommand
\* variant: the environment is assigned, not appended to
NewCommandAssignsEnv(base) ==
    [kind |-> "cmd", ns |-> nshandle, started |-> FALSE,
     Env |-> <<"SSH_AUTH_SOCK=" \o Socket>>]

\* cmd.Env = append(cmd.Env, sshEnv) on the command NewNsCommand built
NewCommand(base) ==
    [kind |-> "cmd", ns |-> nshandle, started |-> FALSE,
     Env |-> Append(base, "SSH_AUTH_SOCK=" \o Socket)]

NewCommandCall ==
    /\ pc = "idle"
    /\ life = "Ready"
    /\ op' = "NewCommand"
    /\ \E base \in EnvBases :
         /\ arg' = base
         /\ ret' = NewCommand(base)
    /\ pc' = "idle"
    /\ nsBefore' = curNs
    /\ tapsBefore' = taps
    /\ exits' = 0
    /\ deferred' = FALSE
    /\ err' = "nil"
    /\ failed' = {}
    /\ trace' = <<>>
    /\ br' = "none"
    /\ UNCHANGED <<life, resources, facts, curNs, origns, scope, taps>>

\* ----------------------------------------------------------------- NewTap
\* links of the cluster namespace: the bridges dnsmasq serves, the TAPs made so far
TapName(i) == "tap" \o ToString(i - 1)
LinkKind(name) ==
    IF \E i \in 1..Len(Segments) : Segments[i].BridgeName = name THEN "bridge"
    ELSE IF \E i \in 1..Len(taps) : TapName(i) = name THEN "tuntap"
    ELSE "none"

\* nsExit, err := NsEnter(lc.nshandle); on error return nil, err; defer nsExit()
TapNsEnterStep ==
    /\ pc = "idle"
    /\ life = "Ready"
    /\ Len(taps) < MaxTaps
    /\ op' = "NewTap"
    /\ \E b \in TapArgs : arg' = b
    /\ nsBefore' = curNs
    /\ tapsBefore' = taps
    /\ exits' = 0
    /\ ret' = NoRet
    /\ br' = "none"
    /\ trace' = <<"NsEnter">>
    /\ \E ok \in BOOLEAN :
         IF ok
         THEN /\ origns' = curNs
              /\ curNs' = EnteredNs
              /\ scope' = TRUE
              /\ deferred' = TRUE
              /\ err' = "nil"
              /\ failed' = {}
              /\ pc' = "tap_add"
         ELSE /\ err' = "NsEnterErr"
              /\ failed' = {"NsEnter"}
              /\ deferred' = FALSE
              /\ pc' = "tap_return"
              /\ UNCHANGED <<origns, curNs, scope>>
    /\ UNCHANGED <<life, resources, facts, taps>>

\* variant: the scope is released right after the device is created
AddLinkTapStepExitsScope ==
    /\ pc = "tap_add"
    /\ \E ok \in BOOLEAN :
         IF ok
         THEN /\ taps' = Append(taps, [up |-> FALSE, master |-> "none", ns |-> curNs])
              /\ NsExitRun
              /\ trace' = trace \o <<"AddLinkTap", "nsExit">>
              /\ pc' = "tap_up"
              /\ UNCHANGED <<err, failed>>
         ELSE /\ err' = "tap failed"
              /\ failed' = failed \cup {"AddLinkTap"}
              /\ trace' = Append(trace, "AddLinkTap")
              /\ pc' = "tap_return"
              /\ UNCHANGED <<taps, thread>>
    /\ UNCHANGED <<op, life, resources, facts, nsBefore, tapsBefore, ret, arg, br>>

\* tap, err := AddLinkTap("")
AddLinkTapStep ==
    /\ pc = "tap_add"
    /\ trace' = Append(trace, "AddLinkTap")
    /\ \E ok \in BOOLEAN :
         IF ok
         THEN /\ taps' = Append(taps, [up |-> FALSE, master |-> "none", ns |-> curNs])
              /\ pc' = "tap_up"
              /\ UNCHANGED <<err, failed>>
         ELSE /\ err' = "tap failed"
              /\ failed' = failed \cup {"AddLinkTap"}
              /\ pc' = "tap_return"
              /\ UNCHANGED taps
    /\ UNCHANGED <<op, life, resources, facts, thread, nsBefore, tapsBefore, ret, arg, br>>

\* variant: the handle is closed when LinkSetUp fails
LinkSetUpStepClosesHandle ==
    /\ pc = "tap_up"
    /\ \E ok \in BOOLEAN :
         IF ok
         THEN /\ taps' = [taps EXCEPT ![Len(taps)].up = TRUE]
              /\ trace' = Append(trace, "LinkSetUp")
              /\ pc' = "tap_byname"
              /\ UNCHANGED <<err, failed, nshandle>>
         ELSE /\ err' = "tap up failed"
              /\ failed' = failed \cup {"LinkSetUp"}
              /\ nshandle' = AfterClose
              /\ trace' = trace \o <<"LinkSetUp", "nshandle.Close">>
              /\ pc' = "tap_return"
              /\ UNCHANGED taps
    /\ UNCHANGED <<op, life, SSHAgent, Dnsmasq, SimpleEtcd, facts, thread, nsBefore, tapsBefore, ret, arg, br>>

\* variant: the error of LinkSetUp is not checked
LinkSetUpStepIgnoresError ==
    /\ pc = "tap_up"
    /\ trace' = Append(trace, "LinkSetUp")
    /\ \E ok \in BOOLEAN :
         IF ok
         THEN /\ taps' = [taps EXCEPT ![Len(taps)].up = TRUE]
              /\ UNCHANGED <<err, failed>>
         ELSE /\ failed' = failed \cup {"LinkSetUp"}
              /\ UNCHANGED <<err, taps>>
    /\ pc' = "tap_byname"
    /\ UNCHANGED <<op, life, resources, facts, thread, nsBefore, tapsBefore, ret, arg, br>>

\* err = netlink.LinkSetUp(tap)
LinkSetUpStep ==
    /\ pc = "tap_up"
    /\ trace' = Append(trace, "LinkSetUp")
    /\ \E ok \in BOOLEAN :
         IF ok
         THEN /\ taps' = [taps EXCEPT ![Len(taps)].up = TRUE]
              /\ pc' = "tap_byname"
              /\ UNCHANGED <<err, failed>>
         ELSE /\ err' = "tap up failed"
              /\ failed' = failed \cup {"LinkSetUp"}
              /\ pc' = "tap_return"
              /\ UNCHANGED taps
    /\ UNCHANGED <<op, life, resources, facts, thread, nsBefore, tapsBefore, ret, arg, br>>

\* br, err := netlink.LinkByName(bridge)
LinkByNameStep ==
    /\ pc = "tap_byname"
    /\ trace' = Append(trace, "LinkByName")
    /\ IF LinkKind(arg) # "none"
       THEN /\ br' = LinkKind(arg)
            /\ pc' = "tap_master"
            /\ UNCHANGED <<err, failed>>
       ELSE /\ err' = "bridge failed"
            /\ failed' = failed \cup {"LinkByName"}
            /\ pc' = "tap_return"
            /\ UNCHANGED br
    /\ UNCHANGED <<op, life, resources, facts, thread, nsBefore, tapsBefore, ret, taps, arg>>

\* err = netlink.LinkSetMaster(tap, br.(*netlink.Bridge)): the type assertion
\* panics when br is not a bridge; the deferred nsExit runs while panicking
LinkSetMasterStep ==
    /\ pc = "tap_master"
    /\ IF br # "bridge"
       THEN /\ RunDeferred
            /\ ret' = [kind |-> "panic", msg |-> "interface conversion"]
            /\ pc' = "crashed"
            /\ UNCHANGED <<err, failed, taps>>
       ELSE /\ trace' = Append(trace, "LinkSetMaster")
            /\ \E ok \in BOOLEAN :
                 IF ok
                 THEN /\ taps' = [taps EXCEPT ![Len(taps)].master = arg]
                      /\ UNCHANGED <<err, failed>>
                 ELSE /\ err' = "set master failed"
                      /\ failed' = failed \cup {"LinkSetMaster"}
                      /\ UNCHANGED taps
            /\ pc' = "tap_return"
            /\ UNCHANGED <<thread, ret>>
    /\ UNCHANGED <<op, life, resources, facts, nsBefore, tapsBefore, arg, br>>

\* variant: a failing NewTap closes the handle before it returns
NewTapReturnClosesHandle ==
    /\ pc = "tap_return"
    /\ RunDeferred
    /\ nshandle' = IF err = "nil" THEN nshandle ELSE AfterClose
    /\ ret' = [kind |-> "tap", tap |-> IF err = "nil" THEN Len(taps) ELSE 0, err |-> err]
    /\ pc' = "idle"
    /\ UNCHANGED <<op, life, SSHAgent, Dnsmasq, SimpleEtcd, facts, nsBefore, tapsBefore, err, failed, taps, arg, br>>

\* variant: nsExit is called before the successful return only, not deferred
NewTapReturnNoDefer ==
    /\ pc = "tap_return"
    /\ IF err = "nil" THEN RunDeferred ELSE UNCHANGED <<thread, trace>>
    /\ ret' = [kind |-> "tap", tap |-> IF err = "nil" THEN Len(taps) ELSE 0, err |-> err]
    /\ pc' = "idle"
    /\ UNCHANGED <<op, life, resources, facts, nsBefore, tapsBefore, err, failed, taps, arg, br>>

\* return tap, nil / return nil, err: the deferred nsExit runs
NewTapReturn ==
    /\ pc = "tap_return"
    /\ RunDeferred
    /\ ret' = [kind |-> "tap", tap |-> IF err = "nil" THEN Len(taps) ELSE 0, err |-> err]
    /\ pc' = "idle"
    /\ UNCHANGED <<op, life, resources, facts, nsBefore, tapsBefore, err, failed, taps, arg, br>>

Next ==
    \/ NsCreateStep
    \/ NewSSHAgentStep
    \/ NsEnterStep
    \/ NewDnsmasqStep
    \/ NewSimpleEtcdStep
    \/ NewLocalClusterReturn
    \/ NewCommandCall
    \/ EtcdEndpointCall
    \/ TapNsEnterStep
    \/ AddLinkTapStep
    \/ LinkSetUpStep
    \/ LinkByNameStep
    \/ LinkSetMasterStep
    \/ NewTapReturn
    \/ DestroyEtcdStep
    \/ DestroyDnsmasqStep
    \/ DestroyAgentStep
    \/ DestroyNsStep
    \/ DestroyReturn

Spec == Init /\ [][Next]_vars

\* ------------------------------------------- EtcdEndpoint on its own inputs
\* A Ready cluster as a successful NewLocalCluster leaves it, with every
\* segment list and port within the bounds; the caller calls EtcdEndpoint.
EndpointInit ==
    /\ pc = "idle"
    /\ op = "NewLocalCluster"
    /\ life = "Ready"
    /\ nshandle = "open"
    /\ SSHAgent = "live"
    /\ Dnsmasq = "live"
    /\ SimpleEtcd = "live"
    /\ Socket \in Sockets
    /\ Segments \in SegmentLists
    /\ Port \in Ports
    /\ curNs \in CallerNs
    /\ origns = curNs
    /\ scope = FALSE
    /\ deferred = TRUE
    /\ exits = 1
    /\ nsBefore = curNs
    /\ tapsBefore = <<>>
    /\ err = "nil"
    /\ failed = {}
    /\ trace = <<"NsCreate", "NewSSHAgent", "NsEnter", "NewDnsmasq", "NewSimpleEtcd", "nsExit">>
    /\ ret = [kind |-> "cluster", lc |-> TRUE, err |-> "nil"]
    /\ taps = <<>>
    /\ arg = "none"
    /\ br = "none"

EndpointNext == EtcdEndpointCall

SpecEndpoint == EndpointInit /\ [][EndpointNext]_vars

\* ================================================================ claims
NsLive == nshandle = "open"
AgentLive == SSHAgent = "live"
DnsLive == Dnsmasq = "live"
EtcdLive == SimpleEtcd = "live"
NoneLive == ~NsLive /\ ~AgentLive /\ ~DnsLive /\ ~EtcdLive
AllLive == NsLive /\ AgentLive /\ DnsLive /\ EtcdLive

\* the call o has finished and nothing has been called since
Returned(o) == pc = "idle" /\ op = o

DestroyOrder == <<"SimpleEtcd.Destroy", "Dnsmasq.Destroy", "SSHAgent.Close", "nshandle.Close">>
InitOrder == <<"NsCreate", "NewSSHAgent", "NsEnter", "NewDnsmasq", "NewSimpleEtcd", "nsExit">>

\* C1: when NewSimpleEtcd fails in NewLocalCluster, at the return the DHCP/DNS
\* service, the SSH agent proxy and the namespace handle are all no longer live.
C1_EtcdFailureReleasesAll ==
    (Returned("NewLocalCluster") /\ "NewSimpleEtcd" \in failed)
        => (~DnsLive /\ ~AgentLive /\ ~NsLive)

\* C2: whatever step of NewLocalCluster fails, when it returns an error nothing
\* created by the attempt (handle, agent socket, service) is still live.
C2_FailedInitLeavesNothing ==
    (Returned("NewLocalCluster") /\ ret.err # "nil") => NoneLive

\* C3: Destroy makes its four teardown calls once each, in the order etcd,
\* dnsmasq, SSH agent, namespace handle, whichever of them fail, and a
\* Destroy in progress can always take its next step up to the return.
C3_DestroyAttemptsAllInOrder ==
    op = "Destroy" =>
        /\ pc \in {"d_dnsmasq", "d_agent", "d_ns", "d_return", "idle"}
        /\ pc = "d_dnsmasq" => trace = SubSeq(DestroyOrder, 1, 1)
        /\ pc = "d_agent" => trace = SubSeq(DestroyOrder, 1, 2)
        /\ pc = "d_ns" => trace = SubSeq(DestroyOrder, 1, 3)
        /\ pc \in {"d_return", "idle"} => trace = DestroyOrder
        /\ pc # "idle" => ENABLED (DestroyDnsmasqStep \/ DestroyAgentStep \/ DestroyNsStep \/ DestroyReturn)
        /\ failed \subseteq Range(trace)

C3_Witness ==
    /\ Returned("Destroy")
    /\ failed = {"SimpleEtcd.Destroy", "Dnsmasq.Destroy", "SSHAgent.Close", "nshandle.Close"}
    /\ trace = DestroyOrder

\* the error of the earliest call of DestroyOrder that is in F, nil when F is empty
EarliestFailure(F) ==
    IF F = {} THEN "nil"
    ELSE LET i == CHOOSE k \in 1..4 : DestroyOrder[k] \in F /\ \A j \in 1..(k - 1) : DestroyOrder[j] \notin F
         IN  DestroyOrder[i] \o " failed"

\* C4: Destroy returns the error of the earliest failing teardown call in
\* destruction order, and nil exactly when no call fails.
C4_DestroyReturnsFirstError ==
    Returned("Destroy") =>
        /\ ret.err = EarliestFailure(failed)
        /\ (ret.err = "nil") <=> (failed = {})

C4_Witness ==
    /\ Returned("Destroy")
    /\ failed = {"SimpleEtcd.Destroy", "SSHAgent.Close"}
    /\ ret.err = "SimpleEtcd.Destroy failed"
    /\ {"SimpleEtcd.Destroy", "SSHAgent.Close"} \subseteq Range(trace)

\* C5: NewLocalCluster returns either a cluster with all four parts set and a
\* nil error after every initialization step succeeded, or no cluster and a
\* non-nil error; the cluster is Ready only in the first case.
C5_AllOrNothingResult ==
    /\ Returned("NewLocalCluster") =>
          \/ /\ ret.lc /\ ret.err = "nil" /\ life = "Ready"
             /\ AllLive /\ failed = {} /\ trace = InitOrder
          \/ /\ ~ret.lc /\ ret.err # "nil" /\ life = "Failed"
             /\ failed # {}
    /\ life = "Ready" =>
          /\ nshandle # "none" /\ SSHAgent # "nil" /\ Dnsmasq # "nil" /\ SimpleEtcd # "nil"
          /\ op = "NewLocalCluster" => failed = {}

C5_Witness ==
    /\ Returned("NewLocalCluster")
    /\ ret.lc
    /\ life = "Ready"
    /\ AllLive

\* C6: after a successful NewLocalCluster, one Destroy leaves none of
\* namespace, coordination store, DHCP/DNS service and SSH agent live.
C6_DestroyReleasesAll ==
    Returned("Destroy") => (NoneLive /\ life = "Destroyed")

C6_Witness ==
    /\ Returned("Destroy")
    /\ ret.err = "Dnsmasq.Destroy failed"
    /\ NoneLive

\* C7: an EtcdEndpoint call made after Destroy fails; it does not return the
\* address and port of the destroyed cluster.
C7_EndpointFailsAfterDestroy ==
    (op = "EtcdEndpoint" /\ life = "Destroyed") => ret.kind # "value"

\* C8: between calls, the namespace, SSH agent, DHCP/DNS service and
\* coordination store are all live or all not live.
C8_AllOrNoneBetweenCalls ==
    pc = "idle" => (AllLive \/ NoneLive)

\* C9: when NewLocalCluster or NewTap has ended after a successful NsEnter
\* (by return or by panic), nsExit has run exactly once and the thread is
\* back in the namespace it was in before the call; nsExit never runs twice.
C9_ScopeRestored ==
    /\ exits <= 1
    /\ (/\ pc \in {"idle", "crashed"}
        /\ op \in {"NewLocalCluster", "NewTap"}
        /\ "NsEnter" \in Range(trace)
        /\ "NsEnter" \notin failed)
          => (exits = 1 /\ curNs = nsBefore /\ ~scope)

C9_Witness ==
    /\ Returned("NewTap")
    /\ ret.err = "tap up failed"
    /\ nsBefore = "outer"
    /\ curNs = "outer"
    /\ exits = 1

\* index of the first segment named br0, 0 when there is none
FirstBr0 ==
    IF \E i \in 1..Len(Segments) : Segments[i].BridgeName = "br0"
    THEN CHOOSE i \in 1..Len(Segments) :
            /\ Segments[i].BridgeName = "br0"
            /\ \A j \in 1..(i - 1) : Segments[j].BridgeName # "br0"
    ELSE 0

Dotted(ip) == ToString(ip[1]) \o "." \o ToString(ip[2]) \o "." \o ToString(ip[3]) \o "." \o ToString(ip[4])

Br0Addresses ==
    UNION {Range(Segments[i].DHCPv4) : i \in {j \in 1..Len(Segments) : Segments[j].BridgeName = "br0"}}

\* C11 as stated: EtcdEndpoint panics exactly when no segment is named br0
\* (the empty list included) and never returns the address of another segment.
C11_PanicsIffNoBr0 ==
    op = "EtcdEndpoint" =>
        /\ (ret.kind = "panic") <=> (FirstBr0 = 0)
        /\ ret.kind = "value" =>
              \E ip \in Br0Addresses : ret.val = "http://" \o Dotted(ip) \o ":" \o ToString(Port)

\* C11 amended: EtcdEndpoint panics exactly when no segment is named br0 or
\* the first segment named br0 has no address; without a br0 segment the
\* panic is "Not a valid bridge!"; a returned value is built from an address
\* of a br0 segment.
C11_PanicsIffNoBr0OrNoLease ==
    op = "EtcdEndpoint" =>
        /\ ret.kind \in {"panic", "value"}
        /\ (ret.kind = "panic") <=> (FirstBr0 = 0 \/ Len(Segments[FirstBr0].DHCPv4) = 0)
        /\ FirstBr0 = 0 => ret = [kind |-> "panic", msg |-> "Not a valid bridge!"]
        /\ (ret.kind = "panic") <=> (pc = "crashed")
        /\ ret.kind = "value" =>
              \E ip \in Br0Addresses : ret.val = "http://" \o Dotted(ip) \o ":" \o ToString(Port)

C11_Witness ==
    /\ op = "EtcdEndpoint"
    /\ pc = "crashed"
    /\ Segments = <<[BridgeName |-> "br1", DHCPv4 |-> << <<10, 0, 2, 15>> >>]>>
    /\ ret = [kind |-> "panic", msg |-> "Not a valid bridge!"]

\* C12: the environment of the command NewCommand returns is the environment
\* the command had, entry by entry, followed by SSH_AUTH_SOCK=<socket path>.
C12_EnvIsAppended ==
    Returned("NewCommand") =>
        /\ Len(ret.Env) = Len(arg) + 1
        /\ \A i \in 1..Len(arg) : ret.Env[i] = arg[i]
        /\ ret.Env[Len(arg) + 1] = "SSH_AUTH_SOCK=" \o Socket

C12_Witness ==
    /\ Returned("NewCommand")
    /\ arg = <<"FOO=bar">>
    /\ ret.Env = <<"FOO=bar", "SSH_AUTH_SOCK=/tmp/agent.sock">>

TapOrder == <<"NsEnter", "AddLinkTap", "LinkSetUp", "LinkByName", "LinkSetMaster">>
IsPrefix(a, b) == Len(a) <= Len(b) /\ \A i \in 1..Len(a) : a[i] = b[i]
\* the calls of the running/last call without the deferred release
Calls == SelectSeq(trace, LAMBDA e : e # "nsExit")
\* position of the first occurrence of e in the trace, 0 when absent
Pos(e) == IF e \in Range(trace) THEN CHOOSE i \in 1..Len(trace) : trace[i] = e /\ \A j \in 1..(i - 1) : trace[j] # e ELSE 0
\* the running/last call has ended, by return or by panic
Ended(o) == op = o /\ pc \in {"idle", "crashed"}

\* C13: in NewTap the scope is entered once, before the device is created, and
\* released once, after the last netlink call made (the failing one included);
\* creation, activation and attachment all run with the scope held.
C13_OneScopedRegion ==
    op = "NewTap" =>
        /\ trace[1] = "NsEnter"
        /\ \A i \in 2..Len(trace) : trace[i] # "NsEnter"
        /\ \A i \in 1..Len(trace) : trace[i] = "nsExit" => (i = Len(trace) /\ Ended("NewTap"))
        /\ pc \in {"tap_add", "tap_up", "tap_byname", "tap_master"} =>
              (scope /\ curNs = EnteredNs /\ exits = 0)
        /\ \A i \in (Len(tapsBefore) + 1)..Len(taps) : taps[i].ns = EnteredNs
        /\ (Ended("NewTap") /\ "NsEnter" \notin failed) => trace[Len(trace)] = "nsExit"

C13_Witness ==
    /\ Returned("NewTap")
    /\ ret.err = "set master failed"
    /\ trace = <<"NsEnter", "AddLinkTap", "LinkSetUp", "LinkByName", "LinkSetMaster", "nsExit">>

\* C14: a NewTap that got as far as looking up the bridge and did not attach
\* the device returns an error and no interface, it does not crash: for a
\* missing bridge, for a link that is not a bridge, for a failing set-master.
C14_AttachFailuresAreErrors ==
    (Ended("NewTap") /\ "LinkByName" \in Range(trace)) =>
        /\ ret.kind = "tap"
        /\ LinkKind(arg) = "none" => (ret.err = "bridge failed" /\ ret.tap = 0)
        /\ LinkKind(arg) = "tuntap" => (ret.err # "nil" /\ ret.tap = 0)
        /\ "LinkSetMaster" \in failed => (ret.err = "set master failed" /\ ret.tap = 0)

\* C16 as stated: NewTap creates, attaches, then activates; on success the
\* interface is a port of the named bridge and up.
C16_CreateAttachActivate ==
    (Returned("NewTap") /\ ret.err = "nil") =>
        /\ Pos("AddLinkTap") < Pos("LinkSetMaster")
        /\ Pos("LinkSetMaster") < Pos("LinkSetUp")
        /\ taps[ret.tap].up
        /\ taps[ret.tap].master = arg

\* C16 amended: NewTap creates, activates, then attaches (looks the bridge up
\* and sets the master); on success the returned interface is a port of the
\* named bridge, which is a bridge, and is up.
C16_CreateActivateAttach ==
    op = "NewTap" =>
        /\ IsPrefix(Calls, TapOrder)
        /\ (Returned("NewTap") /\ ret.err = "nil") =>
              /\ Calls = TapOrder
              /\ failed = {}
              /\ ret.tap = Len(tapsBefore) + 1
              /\ ret.tap = Len(taps)
              /\ taps[ret.tap].up
              /\ taps[ret.tap].master = arg
              /\ LinkKind(arg) = "bridge"

C16_Witness ==
    /\ Returned("NewTap")
    /\ ret.err = "nil"
    /\ arg = "br1"
    /\ ret.tap = 2
    /\ taps[2] = [up |-> TRUE, master |-> "br1", ns |-> "cluster"]

\* C15: when NewSSHAgent fails the handle is closed, the scope is never
\* entered, dnsmasq and etcd are not started and the agent's error is
\* returned; when NsCreate fails nothing else is created and its error is returned.
C15_EarlyFailures ==
    /\ (Returned("NewLocalCluster") /\ "NewSSHAgent" \in failed) =>
          /\ trace = <<"NsCreate", "NewSSHAgent", "nshandle.Close">>
          /\ nshandle = "closed"
          /\ exits = 0 /\ ~scope /\ curNs = nsBefore
          /\ SSHAgent = "nil" /\ Dnsmasq = "nil" /\ SimpleEtcd = "nil"
          /\ ret = [kind |-> "cluster", lc |-> FALSE, err |-> "SSHAgentErr"]
    /\ (Returned("NewLocalCluster") /\ "NsCreate" \in failed) =>
          /\ trace = <<"NsCreate">>
          /\ nshandle = "none"
          /\ exits = 0 /\ ~scope /\ curNs = nsBefore
          /\ SSHAgent = "nil" /\ Dnsmasq = "nil" /\ SimpleEtcd = "nil"
          /\ ret = [kind |-> "cluster", lc |-> FALSE, err |-> "NsCreateErr"]

C15_Witness ==
    /\ Returned("NewLocalCluster")
    /\ failed = {"NewSSHAgent"}
    /\ ret.err = "SSHAgentErr"
    /\ nshandle = "closed"

AcquireOrder == <<"NsCreate", "NewSSHAgent", "NsEnter", "NewDnsmasq", "NewSimpleEtcd">>
\* the acquisition calls of the running/last call, in the order made
Acquired == SelectSeq(trace, LAMBDA e : e \in Range(AcquireOrder))

\* C17: NewLocalCluster acquires in the order namespace, SSH agent, scope,
\* dnsmasq, etcd, each only after the one before succeeded; dnsmasq and etcd
\* are started with the scope held, and the scope is released when the
\* cluster is handed to the caller.
C17_AcquisitionOrder ==
    op = "NewLocalCluster" =>
        /\ IsPrefix(Acquired, AcquireOrder)
        /\ \A i \in 1..(Len(Acquired) - 1) : Acquired[i] \notin failed
        /\ (pc \in {"nlc_dnsmasq", "nlc_etcd"} \/ Dnsmasq # "nil" \/ SimpleEtcd # "nil") =>
              \/ life = "Initializing" /\ scope /\ curNs = EnteredNs /\ exits = 0
              \/ pc = "idle"
        /\ SimpleEtcd # "nil" => Dnsmasq = "live"
        /\ (Returned("NewLocalCluster") /\ ret.lc) =>
              (trace = InitOrder /\ ~scope /\ curNs = nsBefore)

C17_Witness ==
    /\ op = "NewLocalCluster"
    /\ pc = "nlc_etcd"
    /\ Dnsmasq = "live"
    /\ scope
    /\ curNs = "cluster"
    /\ trace = <<"NsCreate", "NewSSHAgent", "NsEnter", "NewDnsmasq">>

\* C18: a NewTap that returns an error leaves the TAP links of the namespace
\* as they were before the call.
C18_FailedNewTapLeavesNoTap ==
    (Returned("NewTap") /\ ret.err # "nil") => taps = tapsBefore

\* C19: while the cluster is Ready, no step of NewCommand, EtcdEndpoint or
\* NewTap changes the agent socket path, the store port, the segment list or
\* the namespace handle; an EtcdEndpoint call right after another returns the
\* same value; NewCommand starts no process and touches no resource.
C19_ReadyFactsUnchanged ==
    [][(life = "Ready" /\ life' = "Ready") =>
          /\ Socket' = Socket /\ Port' = Port /\ Segments' = Segments /\ nshandle' = nshandle
          /\ (op = "EtcdEndpoint" /\ op' = "EtcdEndpoint") => ret' = ret
          /\ (op' = "NewCommand" /\ pc = "idle" /\ pc' = "idle") =>
                (~ret'.started /\ UNCHANGED <<resources, taps, curNs, scope>>)]_vars

C19_Witness ==
    /\ Returned("EtcdEndpoint")
    /\ life = "Ready"
    /\ Len(taps) = 2
    /\ nshandle = "open"
    /\ ret = [kind |-> "value", val |-> "http://10.0.2.15:2379"]

\* C20 as stated: the handle is never closed while a scoped region is open.
C20_NoCloseInsideScope ==
    nshandle = "closed" => ~scope

\* C20 amended: the handle is closed inside an open scoped region only on the
\* NewDnsmasq and NewSimpleEtcd failure paths of NewLocalCluster, where Close
\* runs before the deferred release; Destroy never has a scope open.
C20_CloseInsideScopeOnlyOnInitFailure ==
    /\ (nshandle = "closed" /\ scope) =>
          /\ op = "NewLocalCluster"
          /\ pc = "nlc_return"
          /\ failed \in {{"NewDnsmasq"}, {"NewSimpleEtcd"}}
          /\ trace[Len(trace)] = "nshandle.Close"
    /\ op = "Destroy" => (~scope /\ "NsEnter" \notin Range(trace))
    /\ (op = "NewLocalCluster" /\ failed \cap {"NewDnsmasq", "NewSimpleEtcd"} = {}) =>
          ~(nshandle = "closed" /\ scope)

C20_Witness ==
    /\ op = "NewLocalCluster"
    /\ pc = "nlc_return"
    /\ failed = {"NewSimpleEtcd"}
    /\ nshandle = "closed"
    /\ scope

\* C21: EtcdEndpoint decides on the first segment named br0 alone, whatever
\* follows it: with an address list that is not empty it returns the endpoint
\* of that list's first address, with an empty one it panics with an index
\* out of range, it does not go on to a later br0 segment.
C21_FirstBr0Decides ==
    (op = "EtcdEndpoint" /\ FirstBr0 # 0) =>
        LET leases == Segments[FirstBr0].DHCPv4
        IN  IF Len(leases) = 0
            THEN ret = [kind |-> "panic", msg |-> "index out of range"] /\ pc = "crashed"
            ELSE /\ ret.kind = "value"
                 /\ ret.val = "http://" \o Dotted(leases[1]) \o ":" \o ToString(Port)
                 /\ pc = "idle"

C21_Witness ==
    /\ op = "EtcdEndpoint"
    /\ pc = "crashed"
    /\ Segments = <<[BridgeName |-> "br0", DHCPv4 |-> <<>>],
                    [BridgeName |-> "br0", DHCPv4 |-> << <<10, 0, 2, 15>> >>]>>
    /\ ret = [kind |-> "panic", msg |-> "index out of range"]
====
